---- MODULE Spec2Model ----
(***************************************************************************)
(* Store selection engine of PaddyHi/storelist                             *)
(* (src/src/utils/strategyEngine.ts).                                      *)
(*                                                                         *)
(* A caller owns a list of store records (stores) and optionally a         *)
(* filtered list (filteredStores) holding some of the same record objects. *)
(* StrategyEngine.selectStores is called on these lists any number of      *)
(* times.  A record object is identified by a number 1..n; its fields are  *)
(* storeData[id].  Arrays are sequences of record identities, so that an   *)
(* in-place Array.prototype.sort of a caller array is visible as a change  *)
(* of the caller's sequence.                                               *)
(*                                                                         *)
(* Numbers: prodSelect values are small integers, so sums are exact.  A    *)
(* quotient is kept as a reduced fraction, 0/0 as NaN.  The products       *)
(* n*0.2, n*0.7, n*0.3, n*0.33, n*0.66 and target*(k/n) are computed with  *)
(* integers; for the sizes used here (and for all n < 45) the IEEE double  *)
(* results of the source round to the same integers.                       *)
(***************************************************************************)
EXTENDS Integers, Sequences, FiniteSets, TLC

VARIABLES storeData, stores, filteredStores, strategy, targetConfig, results, calls,
          allocation, histogram

vars == <<storeData, stores, filteredStores, strategy, targetConfig, results, calls,
          allocation, histogram>>

(* ------------------------------ bounds --------------------------------- *)

\* the largest number of records the caller imports
MaxStores == 3

\* the largest number of selectStores calls followed in one behaviour
MaxCalls == 2

\* the largest number of bins asked of generateHistogram (the caller asks for 8,
\* the default is 10)
MaxBins == 11

\* the largest targetConfig.total for which the 70/20/10 split is followed
MaxTarget == 100

\* The store records a caller imports are drawn from these: every combination
\* of three performance values and two regions, over two customer segments.
\* naam is the name split at ' '.
StoreRecords ==
    {[prodSelect |-> 100, fieldSalesRegio |-> "North", klantgroep |-> "A",
      kanaal |-> "C", naam |-> <<"Jumbo", "Centrum">>],
     [prodSelect |-> 200, fieldSalesRegio |-> "North", klantgroep |-> "B",
      kanaal |-> "C", naam |-> <<"Albert", "Heijn", "Oost">>],
     [prodSelect |-> 300, fieldSalesRegio |-> "North", klantgroep |-> "A",
      kanaal |-> "C", naam |-> <<"Albert", "Cuyp">>],
     [prodSelect |-> 100, fieldSalesRegio |-> "South", klantgroep |-> "B",
      kanaal |-> "C", naam |-> <<"Plus">>],
     [prodSelect |-> 200, fieldSalesRegio |-> "South", klantgroep |-> "A",
      kanaal |-> "C", naam |-> <<"Jumbo", "Zuid">>],
     [prodSelect |-> 300, fieldSalesRegio |-> "South", klantgroep |-> "B",
      kanaal |-> "C", naam |-> <<"Jan", "Linders", "West">>]}

\* The documented example import: five North records followed by five South ones.
ExampleRecord(p, r) ==
    [prodSelect |-> p, fieldSalesRegio |-> r, klantgroep |-> "A", kanaal |-> "C",
     naam |-> <<"Plus">>]

ExampleStores ==
    <<ExampleRecord(100, "North"), ExampleRecord(200, "North"),
      ExampleRecord(300, "North"), ExampleRecord(400, "North"),
      ExampleRecord(500, "North"), ExampleRecord(150, "South"),
      ExampleRecord(250, "South"), ExampleRecord(350, "South"),
      ExampleRecord(450, "South"), ExampleRecord(550, "South")>>

\* the largest numbers of North and of South records in a lopsided import
MaxNorth == 2

MaxSouth == 13

\* Lopsided imports: a North records followed by b South records, with
\* performance values 250, 150, 300, 200, 100 repeating and two customer groups.
SkewedRecord(i, r) ==
    [prodSelect |-> 100 + 50 * ((i * 3) % 5), fieldSalesRegio |-> r,
     klantgroep |-> IF i % 2 = 0 THEN "A" ELSE "B", kanaal |-> "C",
     naam |-> <<"Plus">>]

SkewedStores(a, b) ==
    [i \in 1..(a + b) |-> SkewedRecord(i, IF i <= a THEN "North" ELSE "South")]

SkewedImports == {SkewedStores(a, b) : a \in 0..MaxNorth, b \in 0..MaxSouth}

\* the largest number of records in an import with hyphenated segment names
MaxSegmentStores == 2

\* Records whose customer group or channel contains the '-' character.
SegmentRecords ==
    [prodSelect : {100, 200, 300}, fieldSalesRegio : {"North"},
     klantgroep : {"A", "A-B"}, kanaal : {"C", "B-C"}, naam : {<<"Plus">>}]

SegmentImports == UNION {[1..n -> SegmentRecords] : n \in 1..MaxSegmentStores}

\* the largest number of records in an import with a wide spread of values
MaxWideStores == 2

\* Records whose performance values lie far apart.
WideRecords ==
    {ExampleRecord(100, "North"), ExampleRecord(500, "North"),
     ExampleRecord(950, "South")}

WideImports == UNION {[1..n -> WideRecords] : n \in 1..MaxWideStores}

\* what a caller imports: up to MaxStores catalog records, or the example
Imports == UNION {[1..n -> StoreRecords] : n \in 0..MaxStores} \cup {ExampleStores}

KnownStrategies == {"revenue-focus", "geographic-coverage", "growth-opportunities",
                    "portfolio-balance", "market-penetration", "demographic-targeting"}

Strategies == KnownStrategies \cup {"unknown-strategy"}

(* ------------------------- numbers and arrays -------------------------- *)

Min(a, b) == IF a < b THEN a ELSE b

Max(a, b) == IF a > b THEN a ELSE b

RECURSIVE Gcd(_, _)
Gcd(a, b) == IF b = 0 THEN a ELSE Gcd(b, a % b)

\* a / b of two non-negative integers: NaN for 0/0, Infinity for a/0
Divide(a, b) ==
    IF b = 0
    THEN [kind |-> IF a = 0 THEN "NaN" ELSE "Infinity", num |-> 0, den |-> 0]
    ELSE LET g == Gcd(a, b) IN [kind |-> "number", num |-> a \div g, den |-> b \div g]

Number(a) == [kind |-> "number", num |-> a, den |-> 1]

\* Math.floor(n * p/q) and Math.ceil(n * p/q) for the decimal constants of the source
FloorMul(n, p, q) == (n * p) \div q

CeilMul(n, p, q) == ((n * p) + q - 1) \div q

\* Math.round(n * p/10) for p = 7 and p = 2, n < 165: the double product n * 0.7
\* falls just below 31.5 for n = 45 and just below 59.5 for n = 85, and rounds down
RoundMul(n, p) ==
    IF p = 7 /\ n \in {45, 85} THEN (n * p) \div 10 ELSE ((n * p) + 5) \div 10

\* Array.prototype.slice(a, b) with 0-based a, b (negative values count from the end)
Slice(list, a, b) ==
    LET n  == Len(list)
        lo == IF a < 0 THEN Max(n + a, 0) ELSE Min(a, n)
        hi == IF b < 0 THEN Max(n + b, 0) ELSE Min(b, n)
    IN  IF lo >= hi THEN <<>> ELSE SubSeq(list, lo + 1, hi)

\* Array.prototype.filter, the predicate given on the index
FilterIdx(list, Keep(_)) ==
    LET F[i \in 0..Len(list)] ==
            IF i = 0 THEN <<>>
            ELSE IF Keep(i) THEN Append(F[i - 1], list[i]) ELSE F[i - 1]
    IN  F[Len(list)]

\* Array.prototype.map / Array.from({length: n}, (_, i) => Op(i)), with 1-based i
IndexMap(n, Op(_)) ==
    LET F[i \in 0..n] == IF i = 0 THEN <<>> ELSE Append(F[i - 1], Op(i))
    IN  F[n]

Filter(list, Keep(_)) == FilterIdx(list, LAMBDA i : Keep(list[i]))

Includes(list, x) == \E i \in 1..Len(list) : list[i] = x

Range(list) == {list[i] : i \in 1..Len(list)}

\* [...new Set(list)]: the distinct values in order of first occurrence
Distinct(list) ==
    FilterIdx(list, LAMBDA i : \A j \in 1..(i - 1) : list[j] # list[i])

\* Array.prototype.sort with a consistent comparator: a stable sort.
\* Before(a, b) is "compare(a, b) < 0".
StableSort(list, Before(_, _)) ==
    LET n == Len(list)
        pos == IndexMap(n, LAMBDA i : 1 + Cardinality({j \in 1..n :
                        \/ Before(list[j], list[i])
                        \/ (~Before(list[i], list[j]) /\ j < i)}))
    IN  IndexMap(n, LAMBDA k : list[CHOOSE i \in 1..n : pos[i] = k])

SumOf(list, Val(_)) ==
    LET F[i \in 0..Len(list)] == IF i = 0 THEN 0 ELSE F[i - 1] + Val(list[i])
    IN  F[Len(list)]

(* ----------------------------- record fields --------------------------- *)

prodSelect(s) == storeData[s].prodSelect

fieldSalesRegio(s) == storeData[s].fieldSalesRegio

\* variant: descending order obtained as sort(ascending).reverse(), which
\* reverses the order of equal records
sortDescendingByReverse(list) ==
    StableSort(IndexMap(Len(list), LAMBDA i : list[Len(list) + 1 - i]),
               LAMBDA a, b : prodSelect(a) > prodSelect(b))

\* (a, b) => b.prodSelect - a.prodSelect
sortDescending(list) == StableSort(list, LAMBDA a, b : prodSelect(a) > prodSelect(b))

\* variant: ascending order obtained as sort(descending).reverse(), which
\* reverses the order of equal records on every call
sortAscendingByReverse(list) ==
    StableSort(IndexMap(Len(list), LAMBDA i : list[Len(list) + 1 - i]),
               LAMBDA a, b : prodSelect(a) < prodSelect(b))

\* (a, b) => a.prodSelect - b.prodSelect
sortAscending(list) == StableSort(list, LAMBDA a, b : prodSelect(a) < prodSelect(b))

\* variant: current.prodSelect >= best.prodSelect (the last of the equal best)
bestStoreLast(list) ==
    LET F[i \in 1..Len(list)] ==
            IF i = 1 THEN list[1]
            ELSE LET best == F[i - 1]
                 IN  IF prodSelect(list[i]) >= prodSelect(best) THEN list[i] ELSE best
    IN  F[Len(list)]

\* list.reduce((best, current) => current.prodSelect > best.prodSelect ? current : best)
bestStore(list) ==
    LET F[i \in 1..Len(list)] ==
            IF i = 1 THEN list[1]
            ELSE LET best == F[i - 1]
                 IN  IF prodSelect(list[i]) > prodSelect(best) THEN list[i] ELSE best
    IN  F[Len(list)]

\* [...new Set(stores.map(store => store.fieldSalesRegio))]
regionsOf(list) == Distinct(IndexMap(Len(list), LAMBDA i : fieldSalesRegio(list[i])))

\* Record<string, StoreData[]> with the given keys (in insertion order); at[key] the group
groupByKeys(keys, list) ==
    [keys |-> keys,
     at   |-> [r \in Range(keys) |-> Filter(list, LAMBDA s : fieldSalesRegio(s) = r)]]

groupStoresByRegion(list) == groupByKeys(regionsOf(list), list)

(* ------------------------------ strategies ----------------------------- *)
\* Each strategy yields [selected |-> the returned array,
\*                       stores   |-> its argument array after the call].

\* sorted.slice(0, total) of the array sorted in place
sliceOfSorted(sorted, total) == [selected |-> Slice(sorted, 0, total), stores |-> sorted]

\* variant: the comparator reversed (a.prodSelect - b.prodSelect)
revenueAscendingSelection(list, total) == sliceOfSorted(sortAscending(list), total)

\* stores.sort((a, b) => b.prodSelect - a.prodSelect).slice(0, total): sort is in place
revenueMaximizationSelection(list, total) == sliceOfSorted(sortDescending(list), total)

\* variant: the first loop stops one slot early (selectedStores.length < target - 1)
geographicFirstPassOffByOne(regions, storesByRegion, target) ==
    LET F[i \in 0..Len(regions)] ==
            IF i = 0 THEN <<>>
            ELSE LET selectedStores == F[i - 1]
                     regionStores == storesByRegion.at[regions[i]]
                 IN  IF Len(regionStores) > 0 /\ Len(selectedStores) < target - 1
                     THEN Append(selectedStores, bestStore(regionStores))
                     ELSE selectedStores
    IN  F[Len(regions)]

\* first loop: the best performer of each region while selectedStores.length < target
geographicFirstPass(regions, storesByRegion, target) ==
    LET F[i \in 0..Len(regions)] ==
            IF i = 0 THEN <<>>
            ELSE LET selectedStores == F[i - 1]
                     regionStores == storesByRegion.at[regions[i]]
                 IN  IF Len(regionStores) > 0 /\ Len(selectedStores) < target
                     THEN Append(selectedStores, bestStore(regionStores))
                     ELSE selectedStores
    IN  F[Len(regions)]

\* the body of the round-robin loop up to regionIndex++, from loop state p
roundRobinStep(p, regions) ==
    LET region == regions[(p.regionIndex % Len(regions)) + 1]
    IN  IF region \in DOMAIN p.available /\ Len(p.available[region]) > 0
        THEN [p EXCEPT !.selected = Append(@, Head(p.available[region])),
                       !.available = [@ EXCEPT ![region] = Tail(@)],
                       !.regionIndex = @ + 1]
        ELSE [p EXCEPT !.regionIndex = @ + 1]

\* variant: the safety check one iteration later (regionIndex > regions.length * 10 + 1)
roundRobinCapLate(regions) == Len(regions) * 10 + 1

\* regions.length * 10 of the safety check
roundRobinCap(regions) == Len(regions) * 10

\* while (selectedStores.length < target) { ...; regionIndex++;
\*   if (regionIndex > cap) break; }
\* R[k] is the loop state after k steps, a step being one iteration while the loop
\* runs; running is false once the while condition failed or the break was taken.
\* regionIndex counts the iterations made.
roundRobinLoop(selected, available, regions, target, cap) ==
    LET R[k \in 0..(cap + 3)] ==
            IF k = 0
            THEN [selected |-> selected, available |-> available,
                  regionIndex |-> 0, running |-> TRUE]
            ELSE LET p == R[k - 1]
                 IN  IF p.running /\ Len(p.selected) < target
                     THEN LET q == roundRobinStep(p, regions)
                          IN  [q EXCEPT !.running = ~(q.regionIndex > cap)]
                     ELSE [p EXCEPT !.running = FALSE]
    IN  R[cap + 3]

geographicRoundRobin(selected, available, regions, target) ==
    roundRobinLoop(selected, available, regions, target, roundRobinCap(regions))

\* availableByRegion: the groups of the stores not selected yet, each sorted descending
availableByRegion(grouped) ==
    [r \in DOMAIN grouped.at |-> sortDescending(grouped.at[r])]

\* the part of geographicDistributionSelection after the first loop, as the
\* state the round-robin loop ends in (no iteration when no slot remains)
geographicLoopFrom(list, total, regions, first) ==
    IF total - Len(first) > 0
    THEN geographicRoundRobin(first,
            availableByRegion(groupStoresByRegion(
                Filter(list, LAMBDA s : ~Includes(first, s)))),
            regions, total)
    ELSE [selected |-> first, available |-> <<>>, regionIndex |-> 0, running |-> FALSE]

geographicLoopOver(list, total, regions) ==
    geographicLoopFrom(list, total, regions,
                       geographicFirstPass(regions, groupByKeys(regions, list), total))

geographicFill(list, total, regions, first) ==
    geographicLoopFrom(list, total, regions, first).selected

geographicOverRegions(list, total, regions) ==
    geographicLoopOver(list, total, regions).selected

\* the number of iterations the round-robin loop makes in a call
roundRobinIterations(list, total) ==
    geographicLoopOver(list, total, regionsOf(list)).regionIndex

geographicDistributionSelection(list, total) ==
    [selected |-> Slice(geographicOverRegions(list, total, regionsOf(list)), 0, total),
     stores   |-> list]

\* variant: the second pass does not skip the records the first pass selected
growthPassesNoSkip(growthCandidates, target) ==
    LET n == Len(growthCandidates)
        P1[i \in 0..n] ==
            IF i = 0 THEN <<>>
            ELSE LET selectedStores == P1[i - 1]
                 IN  IF /\ fieldSalesRegio(growthCandidates[i]) \notin
                                {fieldSalesRegio(s) : s \in Range(selectedStores)}
                        /\ Len(selectedStores) < target
                     THEN Append(selectedStores, growthCandidates[i])
                     ELSE selectedStores
        P2[i \in 0..n] ==
            IF i = 0 THEN P1[n]
            ELSE LET selectedStores == P2[i - 1]
                 IN  IF Len(selectedStores) < target
                     THEN Append(selectedStores, growthCandidates[i])
                     ELSE selectedStores
    IN  P2[n]

\* first pass (one store per region) then second pass (fill) over growthCandidates
growthPasses(growthCandidates, target) ==
    LET n == Len(growthCandidates)
        P1[i \in 0..n] ==
            IF i = 0 THEN <<>>
            ELSE LET selectedStores == P1[i - 1]
                 IN  IF /\ fieldSalesRegio(growthCandidates[i]) \notin
                                {fieldSalesRegio(s) : s \in Range(selectedStores)}
                        /\ Len(selectedStores) < target
                     THEN Append(selectedStores, growthCandidates[i])
                     ELSE selectedStores
        P2[i \in 0..n] ==
            IF i = 0 THEN P1[n]
            ELSE LET selectedStores == P2[i - 1]
                 IN  IF /\ ~Includes(selectedStores, growthCandidates[i])
                        /\ Len(selectedStores) < target
                     THEN Append(selectedStores, growthCandidates[i])
                     ELSE selectedStores
    IN  P2[n]

\* variant: the slice taken up to the 80th percentile
growthCandidatesWide(sortedStores, target) ==
    LET totalStores == Len(sortedStores)
        middle == Slice(sortedStores, FloorMul(totalStores, 2, 10),
                                      FloorMul(totalStores, 8, 10))
    IN  IF Len(middle) < target
        THEN middle \o Slice(sortedStores, 0, FloorMul(totalStores, 2, 10))
        ELSE middle

\* growthCandidates: the 20th..70th percentile slice, extended by the bottom
\* 20% when it holds fewer than target records
growthCandidatesOf(sortedStores, target) ==
    LET totalStores == Len(sortedStores)
        middle == Slice(sortedStores, FloorMul(totalStores, 2, 10),
                                      FloorMul(totalStores, 7, 10))
    IN  IF Len(middle) < target
        THEN middle \o Slice(sortedStores, 0, FloorMul(totalStores, 2, 10))
        ELSE middle

\* growthPotentialSelection after stores.sort(ascending), which is in place
growthOfSorted(sortedStores, total) ==
    [selected |-> Slice(growthPasses(growthCandidatesOf(sortedStores, total), total),
                        0, total),
     stores   |-> sortedStores]

growthPotentialSelection(list, total) == growthOfSorted(sortAscending(list), total)

\* variant: the core quota rounded up (Math.ceil(target * 0.7))
coreCountCeil(target) == CeilMul(target, 7, 10)

coreCount(target) == RoundMul(target, 7)

growthCount(target) == RoundMul(target, 2)

experimentalCount(target) == target - coreCount(target) - growthCount(target)

\* for (const region of underrepresentedRegions): the best remaining store of each
experimentalFromRegions(underrepresentedRegions, finalRemaining, quota) ==
    LET U[i \in 0..Len(underrepresentedRegions)] ==
            IF i = 0 THEN <<>>
            ELSE LET experimentalStores == U[i - 1]
                     regionStores == Filter(finalRemaining,
                        LAMBDA s : fieldSalesRegio(s) = underrepresentedRegions[i])
                 IN  IF Len(experimentalStores) >= quota THEN experimentalStores
                     ELSE IF Len(regionStores) > 0
                     THEN Append(experimentalStores, bestStore(regionStores))
                     ELSE experimentalStores
    IN  U[Len(underrepresentedRegions)]

\* experimentalStores.push(...remaining.slice(0, quota - experimentalStores.length))
experimentalFill(experimentalStores, finalRemaining, quota) ==
    experimentalStores \o
        Slice(sortAscending(Filter(finalRemaining,
                                   LAMBDA s : ~Includes(experimentalStores, s))),
              0, quota - Len(experimentalStores))

\* the experimental block of portfolioBalanceSelection
experimentalSelection(regions, selectedStores, finalRemaining, quota) ==
    IF Len(finalRemaining) > 0 /\ quota > 0
    THEN experimentalFill(
            experimentalFromRegions(
                Filter(regions, LAMBDA r :
                    r \notin {fieldSalesRegio(s) : s \in Range(selectedStores)}),
                finalRemaining, quota),
            finalRemaining, quota)
    ELSE <<>>

\* the three phases of portfolioBalanceSelection, before the final slice
portfolioAfterGrowth(list, total, coreStores, growthStores) ==
    [core |-> coreStores, growth |-> growthStores,
     experimental |->
        experimentalSelection(regionsOf(list), coreStores \o growthStores,
            Filter(list, LAMBDA s : ~Includes(coreStores \o growthStores, s)),
            experimentalCount(total))]

\* variant: the growth phase run over all the stores, selected ones included
portfolioAfterCoreOverAll(list, total, coreStores) ==
    portfolioAfterGrowth(list, total, coreStores,
        growthPotentialSelection(list, growthCount(total)).selected)

portfolioAfterCore(list, total, coreStores) ==
    portfolioAfterGrowth(list, total, coreStores,
        growthPotentialSelection(Filter(list, LAMBDA s : ~Includes(coreStores, s)),
                                 growthCount(total)).selected)

portfolioPhases(list, total) ==
    portfolioAfterCore(list, total,
        geographicDistributionSelection(list, coreCount(total)).selected)

\* selectedStores.slice(0, target) of the three phases
portfolioSlice(phases, total) ==
    Slice(phases.core \o phases.growth \o phases.experimental, 0, total)

portfolioBalanceSelection(list, total) ==
    [selected |-> portfolioSlice(portfolioPhases(list, total), total), stores |-> list]

\* avgRevenue of a group: sum of prodSelect / length, compared as exact fractions
avgGreater(a, b) ==
    SumOf(a, prodSelect) * Len(b) > SumOf(b, prodSelect) * Len(a)

\* Object.entries(storesByRegion)
regionEntries(storesByRegion) ==
    IndexMap(Len(storesByRegion.keys), LAMBDA i : storesByRegion.at[storesByRegion.keys[i]])

\* variant: sorted by average revenue first, then by density
regionDensityByRevenue(list) ==
    StableSort(regionEntries(groupStoresByRegion(list)), LAMBDA a, b :
            \/ avgGreater(a, b)
            \/ (~avgGreater(b, a) /\ Len(a) > Len(b)))

\* Object.entries(storesByRegion)...sort(density desc, then avgRevenue desc)
regionDensity(list) ==
    StableSort(regionEntries(groupStoresByRegion(list)), LAMBDA a, b :
            \/ Len(a) > Len(b)
            \/ (Len(a) = Len(b) /\ avgGreater(a, b)))

\* variant: the regional share rounded down (Math.floor(target * regionWeight))
storesToSelectInRegionFloor(target, selectedLen, regionLen, totalLen) ==
    Max(1, Min(target - selectedLen, FloorMul(target, regionLen, totalLen)))

\* Math.max(1, Math.min(remainingSlots, Math.ceil(target * regionWeight)))
storesToSelectInRegion(target, selectedLen, regionLen, totalLen) ==
    Max(1, Min(target - selectedLen, CeilMul(target, regionLen, totalLen)))

\* for (const { stores: regionStores } of regionDensity) { ... }
marketOverDensity(density, totalLen, total) ==
    LET F[i \in 0..Len(density)] ==
            IF i = 0 THEN <<>>
            ELSE LET selectedStores == F[i - 1]
                 IN  IF Len(selectedStores) >= total THEN selectedStores
                     ELSE selectedStores \o Slice(sortDescending(density[i]), 0,
                            storesToSelectInRegion(total, Len(selectedStores),
                                                   Len(density[i]), totalLen))
    IN  F[Len(density)]

marketPenetrationSelection(list, total) ==
    [selected |-> Slice(marketOverDensity(regionDensity(list), Len(list), total),
                        0, total),
     stores   |-> list]

\* `${store.klantgroep}-${store.kanaal}`
demographicKey(s) == storeData[s].klantgroep \o "-" \o storeData[s].kanaal

\* storesByDemographic: the groups in key insertion order, keyOf[i] the key of list[i]
groupByDemographic(list, keyOf, keys) ==
    IndexMap(Len(keys), LAMBDA i : FilterIdx(list, LAMBDA j : keyOf[j] = keys[i]))

demographicGroups(list, keyOf) == groupByDemographic(list, keyOf, Distinct(keyOf))

storesByDemographic(list) ==
    demographicGroups(list, IndexMap(Len(list), LAMBDA i : demographicKey(list[i])))

\* each group sorted descending
sortedSegments(entries) == IndexMap(Len(entries), LAMBDA i : sortDescending(entries[i]))

\* the segments ordered by avgRevenue descending
segmentPerformance(list) ==
    StableSort(sortedSegments(storesByDemographic(list)), LAMBDA a, b : avgGreater(a, b))

\* variant: half of the segment (Math.ceil(segmentStores.length * 0.5))
storesToSelectInSegmentHalf(target, selectedLen, segmentLen) ==
    Min(target - selectedLen, Max(1, CeilMul(segmentLen, 5, 10)))

\* Math.min(remainingSlots, Math.max(1, Math.ceil(segmentStores.length * 0.3)))
storesToSelectInSegment(target, selectedLen, segmentLen) ==
    Min(target - selectedLen, Max(1, CeilMul(segmentLen, 3, 10)))

\* for (const { stores: segmentStores } of segmentPerformance) { ... }
demographicOverSegments(segments, total) ==
    LET F[i \in 0..Len(segments)] ==
            IF i = 0 THEN <<>>
            ELSE LET selectedStores == F[i - 1]
                 IN  IF Len(selectedStores) >= total THEN selectedStores
                     ELSE selectedStores \o Slice(segments[i], 0,
                            storesToSelectInSegment(total, Len(selectedStores),
                                                    Len(segments[i])))
    IN  F[Len(segments)]

demographicTargetingSelection(list, total) ==
    [selected |-> Slice(demographicOverSegments(segmentPerformance(list), total),
                        0, total),
     stores   |-> list]

(* ------------------------------ retailerUtils -------------------------- *)
\* A store name is kept as its words (the name split at ' ').  No word of the
\* names used here merely begins with a known retailer's word, so a name starts
\* with a retailer exactly when its first words are the retailer's words.

knownRetailers ==
    <<<<"Albert", "Heijn">>, <<"Jumbo">>, <<"Plus">>, <<"Aldi">>, <<"Coop">>,
      <<"Spar">>, <<"Vomar">>, <<"Picnic">>, <<"Dirk">>, <<"Dekamarkt">>, <<"Lidl">>,
      <<"Nettorama">>, <<"Boni">>, <<"Hoogvliet">>, <<"Jan", "Linders">>>>

\* storeName.startsWith(retailer)
startsWith(storeName, retailer) ==
    /\ Len(storeName) >= Len(retailer)
    /\ SubSeq(storeName, 1, Len(retailer)) = retailer

\* the first known retailer the name starts with, else the first two words,
\* else the first word
extractRetailerBrand(storeName) ==
    IF \E k \in 1..Len(knownRetailers) : startsWith(storeName, knownRetailers[k])
    THEN knownRetailers[CHOOSE k \in 1..Len(knownRetailers) :
            /\ startsWith(storeName, knownRetailers[k])
            /\ \A j \in 1..(k - 1) : ~startsWith(storeName, knownRetailers[j])]
    ELSE IF Len(storeName) >= 2 THEN SubSeq(storeName, 1, 2)
    ELSE storeName

(* --------------------------- result analytics -------------------------- *)

\* sortedRevenues[Math.floor(sortedRevenues.length * p/100)]; undefined for an empty array
threshold(sortedRevenues, p) ==
    IF Len(sortedRevenues) = 0 THEN [defined |-> FALSE, value |-> 0]
    ELSE [defined |-> TRUE,
          value |-> sortedRevenues[FloorMul(Len(sortedRevenues), p, 100) + 1]]

\* x >= t and x < t where t may be undefined (every comparison with undefined is false)
atLeast(x, t) == t.defined /\ x >= t.value

\* variant: the upper bound of a tier taken inclusive (x <= t)
belowOrEqual(x, t) == t.defined /\ x <= t.value

below(x, t) == t.defined /\ x < t.value

\* store.naam.split(' ')[0]
firstWord(s) == storeData[s].naam[1]

\* uniqueRegions.size / totalRegions.size
regionCoverageOf(selectedStores, allStores) ==
    Divide(Cardinality({fieldSalesRegio(s) : s \in Range(selectedStores)}),
           Cardinality({fieldSalesRegio(s) : s \in Range(allStores)}))

\* [...revenues].sort((a, b) => b - a)
sortedRevenuesOf(selectedStores) ==
    StableSort(IndexMap(Len(selectedStores), LAMBDA i : prodSelect(selectedStores[i])),
               LAMBDA a, b : a > b)

\* the three filters of performanceDistribution
tierCounts(selectedStores, highThreshold, mediumThreshold) ==
    [high |-> Len(Filter(selectedStores,
                LAMBDA s : atLeast(prodSelect(s), highThreshold))),
     medium |-> Len(Filter(selectedStores,
                LAMBDA s : /\ atLeast(prodSelect(s), mediumThreshold)
                           /\ below(prodSelect(s), highThreshold))),
     low |-> Len(Filter(selectedStores,
                LAMBDA s : below(prodSelect(s), mediumThreshold)))]

thresholdCounts(selectedStores, sortedRevenues) ==
    tierCounts(selectedStores, threshold(sortedRevenues, 33),
               threshold(sortedRevenues, 66))

performanceDistributionOf(selectedStores) ==
    thresholdCounts(selectedStores, sortedRevenuesOf(selectedStores))

\* variant: revenuePerRegion[region] = store.prodSelect (the last record's value)
revenuePerRegionLast(selectedStores) ==
    [r \in {fieldSalesRegio(s) : s \in Range(selectedStores)} |->
        LET regionStores == Filter(selectedStores, LAMBDA s : fieldSalesRegio(s) = r)
        IN  prodSelect(regionStores[Len(regionStores)])]

\* revenuePerRegion[region] = (revenuePerRegion[region] || 0) + store.prodSelect
revenuePerRegionOf(selectedStores) ==
    [r \in {fieldSalesRegio(s) : s \in Range(selectedStores)} |->
        SumOf(Filter(selectedStores, LAMBDA s : fieldSalesRegio(s) = r), prodSelect)]

statisticsOf(selectedStores) ==
    [totalStores |-> Len(selectedStores),
     uniqueRegions |-> Cardinality({fieldSalesRegio(s) : s \in Range(selectedStores)}),
     uniqueRetailers |-> Cardinality({firstWord(s) : s \in Range(selectedStores)}),
     revenuePerRegion |-> revenuePerRegionOf(selectedStores)]

\* variant: totalRegions taken over every imported record
generateResultOverImport(selectedStores, allStores) ==
    [selectedStores |-> selectedStores,
     totalRevenue |-> SumOf(selectedStores, prodSelect),
     averageRevenue |-> Divide(SumOf(selectedStores, prodSelect), Len(selectedStores)),
     regionCoverage |-> regionCoverageOf(selectedStores,
                            IndexMap(Len(storeData), LAMBDA i : i)),
     performanceDistribution |-> performanceDistributionOf(selectedStores),
     statistics |-> statisticsOf(selectedStores)]

generateResult(selectedStores, allStores) ==
    [selectedStores |-> selectedStores,
     totalRevenue |-> SumOf(selectedStores, prodSelect),
     averageRevenue |-> Divide(SumOf(selectedStores, prodSelect), Len(selectedStores)),
     regionCoverage |-> regionCoverageOf(selectedStores, allStores),
     performanceDistribution |-> performanceDistributionOf(selectedStores),
     statistics |-> statisticsOf(selectedStores)]

createEmptyResult ==
    [selectedStores |-> <<>>,
     totalRevenue |-> 0,
     averageRevenue |-> Number(0),
     regionCoverage |-> Number(0),
     performanceDistribution |-> [high |-> 0, medium |-> 0, low |-> 0],
     statistics |-> [totalStores |-> 0, uniqueRegions |-> 0, uniqueRetailers |-> 0,
                     revenuePerRegion |-> [r \in {} |-> 0]]]

(* --------------------------- PerformanceAnalyzer ----------------------- *)
\* binSize = (max - min) / bins and the bounds min + k * binSize are doubles.
\* A value p is compared with the exact bound min + k * (max - min) / bins as
\* (p - min) * bins with k * (max - min); where the two are equal the outcome
\* is that of the double bound, which for some (min, max, bins, k) is one unit
\* in the last place above or below the exact one.  The two sets below list
\* those cases for performance values that are multiples of 50 between 100 and
\* 550, or 950, and up to 12 bins.  Between two such values a bound is never
\* close enough to a value for the rounding to matter, and no label changes.

\* min + k * binSize comes out above the exact bound (500.00000000000006)
boundRoundedUp == {<<100, 500, 11, 11>>, <<150, 950, 11, 11>>}

\* min + k * binSize comes out below the exact bound (949.9999999999999)
boundRoundedDown == {<<100, 950, 11, 11>>}

\* p >= min + k * binSize
notBelowBound(p, min, max, bins, k) ==
    \/ (p - min) * bins > k * (max - min)
    \/ /\ (p - min) * bins = k * (max - min)
       /\ <<min, max, bins, k>> \notin boundRoundedUp

\* p < min + k * binSize
belowBound(p, min, max, bins, k) == ~notBelowBound(p, min, max, bins, k)

\* p <= min + k * binSize
notAboveBound(p, min, max, bins, k) ==
    \/ (p - min) * bins < k * (max - min)
    \/ /\ (p - min) * bins = k * (max - min)
       /\ <<min, max, bins, k>> \notin boundRoundedDown

\* Math.min(...revenues) and Math.max(...revenues) of a non-empty list
minRevenue(list) == CHOOSE m \in {prodSelect(s) : s \in Range(list)} :
                        \A s \in Range(list) : m <= prodSelect(s)

maxRevenue(list) == CHOOSE m \in {prodSelect(s) : s \in Range(list)} :
                        \A s \in Range(list) : m >= prodSelect(s)

\* Math.round((min + k * binSize) / 1000)
roundedThousands(min, max, bins, k) ==
    (2 * (min * bins + k * (max - min)) + 1000 * bins) \div (2000 * bins)

\* `€${Math.round(binMin / 1000)}k - €${Math.round(binMax / 1000)}k`
rangeLabel(min, max, bins, i) ==
    [from |-> roundedThousands(min, max, bins, i),
     to   |-> roundedThousands(min, max, bins, i + 1)]

\* variant: the last bin closed on the left only, like the others
inBinHalfOpen(p, min, max, bins, i) ==
    /\ notBelowBound(p, min, max, bins, i)
    /\ belowBound(p, min, max, bins, i + 1)

\* store.prodSelect >= binMin &&
\*     (i === bins - 1 ? store.prodSelect <= binMax : store.prodSelect < binMax)
inBin(p, min, max, bins, i) ==
    /\ notBelowBound(p, min, max, bins, i)
    /\ IF i = bins - 1
       THEN notAboveBound(p, min, max, bins, i + 1)
       ELSE belowBound(p, min, max, bins, i + 1)

\* the entry pushed for bin i (0-based)
histogramBin(list, min, max, bins, i) ==
    [range  |-> rangeLabel(min, max, bins, i),
     count  |-> Len(Filter(list, LAMBDA s : inBin(prodSelect(s), min, max, bins, i))),
     stores |-> Filter(list, LAMBDA s : inBin(prodSelect(s), min, max, bins, i))]

\* for (let i = 0; i < bins; i++) { ... histogram.push(...) }
histogramOver(list, min, max, bins) ==
    IndexMap(bins, LAMBDA k : histogramBin(list, min, max, bins, k - 1))

\* over an empty list min is Infinity and max is -Infinity: every bound is NaN,
\* every comparison false and every label '€NaNk - €NaNk'
histogramOfNone(bins) ==
    IndexMap(bins, LAMBDA k : [range |-> [from |-> "NaN", to |-> "NaN"],
                               count |-> 0, stores |-> <<>>])

generateHistogramCall(list, bins) ==
    IF Len(list) = 0 THEN histogramOfNone(bins)
    ELSE histogramOver(list, minRevenue(list), maxRevenue(list), bins)

(* ------------------------------ dispatcher ----------------------------- *)

\* an optional array argument: given = FALSE is undefined
Undefined == [given |-> FALSE, list |-> <<>>]

Given(list) == [given |-> TRUE, list |-> list]

\* variant: an empty filteredStores falls back to stores
workingStoresNonEmpty(all, filtered) ==
    IF filtered.given /\ Len(filtered.list) > 0
    THEN [array |-> "filteredStores", list |-> filtered.list]
    ELSE [array |-> "stores", list |-> all]

\* filteredStores || stores: an array, also an empty one, is truthy. The value
\* is a reference: array names the argument it aliases, list its contents.
workingStores(all, filtered) ==
    IF filtered.given
    THEN [array |-> "filteredStores", list |-> filtered.list]
    ELSE [array |-> "stores", list |-> all]

\* variant: the switch without its default branch (selectedStores stays [])
dispatchNoDefault(strat, list, total) ==
    CASE strat = "revenue-focus" -> revenueMaximizationSelection(list, total)
      [] strat = "geographic-coverage" -> geographicDistributionSelection(list, total)
      [] strat = "growth-opportunities" -> growthPotentialSelection(list, total)
      [] strat = "portfolio-balance" -> portfolioBalanceSelection(list, total)
      [] strat = "market-penetration" -> marketPenetrationSelection(list, total)
      [] strat = "demographic-targeting" -> demographicTargetingSelection(list, total)
      [] OTHER -> [selected |-> <<>>, stores |-> list]

\* the switch of selectStores
dispatch(strat, list, total) ==
    CASE strat = "revenue-focus" -> revenueMaximizationSelection(list, total)
      [] strat = "geographic-coverage" -> geographicDistributionSelection(list, total)
      [] strat = "growth-opportunities" -> growthPotentialSelection(list, total)
      [] strat = "portfolio-balance" -> portfolioBalanceSelection(list, total)
      [] strat = "market-penetration" -> marketPenetrationSelection(list, total)
      [] strat = "demographic-targeting" -> demographicTargetingSelection(list, total)
      [] OTHER -> revenueMaximizationSelection(list, total)

\* return this.generateResult(selectedStores, workingStores), with the working
\* array as the strategy left it
resultOf(run, working) ==
    [result  |-> generateResult(run.selected, working.list),
     working |-> [working EXCEPT !.list = run.stores]]

\* variant: no early return for an empty working array
selectStoresOnNoGuard(working, strat, total) ==
    resultOf(dispatch(strat, working.list, total), working)

\* selectStores(all, strategy, {total}, filtered):
\*   result  - the SelectionResult returned
\*   working - the working array after the call (sorted in place by two strategies)
selectStoresOn(working, strat, total) ==
    IF Len(working.list) = 0
    THEN [result |-> createEmptyResult, working |-> working]
    ELSE resultOf(dispatch(strat, working.list, total), working)

selectStoresCall(all, strat, total, filtered) ==
    selectStoresOn(workingStores(all, filtered), strat, total)

(* ------------------------------ state machine -------------------------- *)

\* nothing computed yet by the quota split and by the histogram
NoAllocation == [computed |-> FALSE, core |-> 0, growth |-> 0, experimental |-> 0]

NoHistogram == [computed |-> FALSE, requested |-> 0, bins |-> <<>>]

\* results: SelectionResult | null
Null == [computed |-> FALSE, value |-> createEmptyResult]

\* The caller (AppState) has imported n records, stores lists them in import
\* order; it either has no filtered list or has one from which the filter
\* excluded one region; it has chosen a strategy and a target.
Init ==
    /\ storeData \in Imports
    /\ stores = [i \in 1..Len(storeData) |-> i]
    /\ \/ filteredStores = Undefined
       \/ filteredStores = Given(FilterIdx(stores,
                LAMBDA i : storeData[i].fieldSalesRegio # "South"))
    /\ strategy \in Strategies
    /\ targetConfig \in [total : 1..(Len(storeData) + 1)]
    /\ results = Null
    /\ calls = 0
    /\ allocation = NoAllocation
    /\ histogram = NoHistogram

\* results = StrategyEngine.selectStores(stores, strategy, targetConfig, filteredStores)
returned(ret) ==
    /\ results' = [computed |-> TRUE, value |-> ret.result]
    /\ stores' = IF ret.working.array = "stores" THEN ret.working.list ELSE stores
    /\ filteredStores' = IF ret.working.array = "filteredStores"
                         THEN Given(ret.working.list)
                         ELSE filteredStores

selectStores ==
    /\ calls < MaxCalls
    /\ calls' = calls + 1
    /\ returned(selectStoresCall(stores, strategy, targetConfig.total, filteredStores))
    /\ UNCHANGED <<storeData, strategy, targetConfig, allocation, histogram>>

Next == selectStores

Spec == Init /\ [][Next]_vars

\* handleObjectiveSelect: the caller picks another campaign objective between calls
changeStrategy ==
    /\ calls < MaxCalls
    /\ strategy' \in KnownStrategies \ {strategy}
    /\ UNCHANGED <<storeData, stores, filteredStores, targetConfig, results, calls,
                   allocation, histogram>>

\* a session in which the strategy changes between the calls on the same lists
NextSession == selectStores \/ changeStrategy

SpecSession == Init /\ [][NextSession]_vars

(* ------------------------------ properties ----------------------------- *)

\* the selection of the last call, the target, and the working array the code used
selection == results.value.selectedStores

targetTotal == targetConfig.total

workingSet == workingStores(stores, filteredStores).list

regionSet(list) == {fieldSalesRegio(s) : s \in Range(list)}

NoDuplicates(list) == Cardinality(Range(list)) = Len(list)

\* the SelectionResult with every field zero, as the documentation writes it
ZeroedResult ==
    [selectedStores |-> <<>>, totalRevenue |-> 0,
     averageRevenue |-> [kind |-> "number", num |-> 0, den |-> 1],
     regionCoverage |-> [kind |-> "number", num |-> 0, den |-> 1],
     performanceDistribution |-> [high |-> 0, medium |-> 0, low |-> 0],
     statistics |-> [totalStores |-> 0, uniqueRegions |-> 0, uniqueRetailers |-> 0,
                     revenuePerRegion |-> <<>>]]

\* C1: for every strategy the selection has at most min(total, |working set|)
\* records, every selected record is in the working set, and none is selected twice.
C1_CardinalityBound ==
    results.computed =>
        /\ Len(selection) <= Min(targetTotal, Len(workingSet))
        /\ Range(selection) \subseteq Range(workingSet)
        /\ NoDuplicates(selection)

C1_Witness ==
    /\ results.computed
    /\ strategy = "portfolio-balance"
    /\ targetTotal > Len(workingSet)
    /\ Len(selection) >= 2

\* C2: a second call with the same arguments returns a result deeply equal to
\* the result of the first call (the first call may have sorted the array).
C2_Determinism == [][results.computed => results'.value = results.value]_vars

C2_Witness ==
    /\ calls = 2
    /\ strategy = "growth-opportunities"
    /\ ~filteredStores.given
    /\ stores # [i \in 1..Len(stores) |-> i]
    /\ Len(selection) >= 2

\* C3: a call on an empty working set returns the zeroed SelectionResult.
C3_EmptyWorkingSet ==
    (results.computed /\ Len(workingSet) = 0) => results.value = ZeroedResult

C3_Witness ==
    /\ results.computed
    /\ Len(stores) = 0
    /\ strategy = "portfolio-balance"

\* what a result shows of the working set ws it was computed from
ResultIsOver(ws) ==
    /\ Range(selection) \subseteq Range(ws)
    /\ strategy = "revenue-focus" => Len(selection) = Min(targetTotal, Len(ws))
    /\ Len(ws) = 0 => results.value = ZeroedResult
    /\ Len(ws) > 0 => results.value.regionCoverage =
            Divide(Cardinality(regionSet(selection)), Cardinality(regionSet(ws)))

\* C4 as claimed: the working set is filteredStores when provided and non-empty,
\* else allStores (so an empty filteredStores selects from allStores).
C4_Claimed ==
    results.computed =>
        ResultIsOver(IF filteredStores.given /\ Len(filteredStores.list) > 0
                     THEN filteredStores.list ELSE stores)

\* C4 amended: the working set is filteredStores whenever it is provided, also
\* when it is empty (the result is then zeroed), and allStores only when
\* filteredStores is not provided.
C4_WorkingSet ==
    results.computed =>
        /\ ResultIsOver(IF filteredStores.given THEN filteredStores.list ELSE stores)
        /\ (filteredStores.given /\ Len(filteredStores.list) = 0)
                => results.value = ZeroedResult

C4_Witness ==
    /\ results.computed
    /\ filteredStores.given
    /\ Len(filteredStores.list) = 0
    /\ Len(stores) >= 2
    /\ strategy = "revenue-focus"

\* C5: when total >= |working set| (non-empty), every strategy returns the full
\* pool: each record of the working set exactly once.
C5_FullPool ==
    (results.computed /\ Len(workingSet) > 0 /\ targetTotal >= Len(workingSet)) =>
        /\ Range(selection) = Range(workingSet)
        /\ Len(selection) = Len(workingSet)

\* C6: averageRevenue is totalRevenue / |selectedStores| for a non-empty
\* selection and 0 for an empty one.
C6_AverageRevenue ==
    results.computed =>
        results.value.averageRevenue =
            IF Len(selection) = 0 THEN [kind |-> "number", num |-> 0, den |-> 1]
            ELSE Divide(results.value.totalRevenue, Len(selection))

\* C7: Revenue Focus with 1 <= k < |candidates| selects exactly k records and
\* no selected record has a smaller performanceValue than a non-selected one.
C7_RevenueTopK ==
    (results.computed /\ strategy = "revenue-focus" /\ targetTotal < Len(workingSet)) =>
        /\ Len(selection) = targetTotal
        /\ \A s \in Range(selection) : \A x \in Range(workingSet) \ Range(selection) :
                prodSelect(s) >= prodSelect(x)

C7_Witness ==
    /\ results.computed
    /\ strategy = "revenue-focus"
    /\ targetTotal = 2
    /\ Len(workingSet) = 3
    /\ \E s \in Range(selection) : \E x \in Range(workingSet) \ Range(selection) :
            prodSelect(s) = prodSelect(x)
    /\ \E s \in Range(selection) : \E x \in Range(workingSet) \ Range(selection) :
            prodSelect(s) > prodSelect(x)

C9_UnknownStrategy ==
    [][strategy \notin KnownStrategies =>
        results'.value = selectStoresCall(stores, "revenue-focus", targetTotal,
                                          filteredStores).result]_vars

C9_Witness ==
    /\ results.computed
    /\ strategy \notin KnownStrategies
    /\ Len(selection) >= 2
    /\ prodSelect(selection[1]) > prodSelect(selection[2])

\* C10: a call leaves the caller's allStores and filteredStores lists, and the
\* fields of every record, as they were.
C10_InputsReadOnly ==
    [][selectStores =>
       /\ stores' = stores
       /\ filteredStores' = filteredStores
       /\ storeData' = storeData]_vars

\* The caller has imported a lopsided list: few North records, many South ones.
InitSkewed ==
    /\ storeData \in SkewedImports
    /\ stores = [i \in 1..Len(storeData) |-> i]
    /\ \/ filteredStores = Undefined
       \/ filteredStores = Given(FilterIdx(stores,
                LAMBDA i : storeData[i].fieldSalesRegio # "South"))
    /\ strategy \in Strategies
    /\ targetConfig \in [total : 1..(Len(storeData) + 1)]
    /\ results = Null
    /\ calls = 0
    /\ allocation = NoAllocation
    /\ histogram = NoHistogram

SpecSkewed == InitSkewed /\ [][Next]_vars

\* The 70/20/10 split of portfolioBalanceSelection on its own, for every target
\* up to MaxTarget.
InitAllocation ==
    /\ storeData = <<>>
    /\ stores = <<>>
    /\ filteredStores = Undefined
    /\ strategy = "portfolio-balance"
    /\ targetConfig \in [total : 1..MaxTarget]
    /\ results = Null
    /\ calls = 0
    /\ allocation = NoAllocation
    /\ histogram = NoHistogram

\* const coreCount = ...; const growthCount = ...; const experimentalCount = ...
portfolioAllocation ==
    /\ ~allocation.computed
    /\ allocation' = [computed |-> TRUE,
                      core |-> coreCount(targetConfig.total),
                      growth |-> growthCount(targetConfig.total),
                      experimental |-> experimentalCount(targetConfig.total)]
    /\ UNCHANGED <<storeData, stores, filteredStores, strategy, targetConfig, results,
                   calls, histogram>>

NextAllocation == portfolioAllocation

SpecAllocation == InitAllocation /\ [][NextAllocation]_vars

\* The caller draws the revenue histogram of an imported list.
InitHistogram ==
    /\ storeData \in Imports \cup WideImports
    /\ stores = [i \in 1..Len(storeData) |-> i]
    /\ filteredStores = Undefined
    /\ strategy = "revenue-focus"
    /\ targetConfig = [total |-> 1]
    /\ results = Null
    /\ calls = 0
    /\ allocation = NoAllocation
    /\ histogram = NoHistogram

\* histogram = PerformanceAnalyzer.generateHistogram(stores, bins)
generateHistogram ==
    /\ ~histogram.computed
    /\ \E bins \in 1..MaxBins :
            histogram' = [computed |-> TRUE, requested |-> bins,
                          bins |-> generateHistogramCall(stores, bins)]
    /\ UNCHANGED <<storeData, stores, filteredStores, strategy, targetConfig, results,
                   calls, allocation>>

NextHistogram == generateHistogram

SpecHistogram == InitHistogram /\ [][NextHistogram]_vars

\* the caller's lists as originally supplied: import order, the filter applied to it
suppliedStores == IndexMap(Len(storeData), LAMBDA i : i)

suppliedFiltered ==
    IF filteredStores.given
    THEN Given(FilterIdx(suppliedStores, LAMBDA i : storeData[i].fieldSalesRegio # "South"))
    ELSE Undefined

\* C11: in a sequence of calls on the same caller-owned lists, each call returns
\* the result it would return as the only call on the lists as originally supplied.
C11_NoSharedState ==
    [][selectStores =>
        results'.value = selectStoresCall(suppliedStores, strategy, targetTotal,
                                          suppliedFiltered).result]_vars

\* C12: the three Portfolio Balance quotas of a target t >= 1 add up to t and
\* none is negative; for t = 100 they are 70, 20 and 10.
C12_Quotas ==
    allocation.computed =>
        /\ allocation.core + allocation.growth + allocation.experimental = targetTotal
        /\ allocation.core >= 0
        /\ allocation.growth >= 0
        /\ allocation.experimental >= 0
        /\ targetTotal = 100 =>
                /\ allocation.core = 70
                /\ allocation.growth = 20
                /\ allocation.experimental = 10

C12_Witness ==
    /\ allocation.computed
    /\ targetTotal = 100
    /\ allocation.experimental = 10

\* the documented example: the ten records, no filter
ExampleCall(strat, total) ==
    /\ results.computed
    /\ storeData = ExampleStores
    /\ ~filteredStores.given
    /\ strategy = strat
    /\ targetTotal = total

\* the performance values of the selection, in order
selectionValues == [i \in 1..Len(selection) |-> prodSelect(selection[i])]

\* C13: on the ten example records Geographic Coverage with target 2 returns
\* [550 (South), 500 (North)]: record 10, then record 5.
C13_ExampleGeographic ==
    ExampleCall("geographic-coverage", 2) => selection = <<10, 5>>

\* the records of list in region r with the largest performance value of r
bestOfRegion(list, r) ==
    {s \in Range(list) :
        /\ fieldSalesRegio(s) = r
        /\ \A x \in Range(list) :
                fieldSalesRegio(x) = r => prodSelect(x) <= prodSelect(s)}

\* the regions of list in order of first occurrence
regionOrder(list) ==
    LET firstAt(r) == CHOOSE i \in 1..Len(list) :
                        /\ fieldSalesRegio(list[i]) = r
                        /\ \A j \in 1..(i - 1) : fieldSalesRegio(list[j]) # r
    IN  [k \in 1..Cardinality(regionSet(list)) |->
            CHOOSE r \in regionSet(list) :
                Cardinality({q \in regionSet(list) : firstAt(q) < firstAt(r)}) = k - 1]

\* C14: Revenue Focus returns its records by descending performance value, equal
\* ones in input order (record numbers are the import order); on the example
\* with target 3 that is [550, 500, 450].  The record Geographic Coverage takes
\* for a region in its first phase is the earliest of the region's best ones.
C14_StableTieBreak ==
    results.computed =>
        /\ strategy = "revenue-focus" =>
                \A i, j \in 1..Len(selection) : i < j =>
                    \/ prodSelect(selection[i]) > prodSelect(selection[j])
                    \/ /\ prodSelect(selection[i]) = prodSelect(selection[j])
                       /\ selection[i] < selection[j]
        /\ ExampleCall("revenue-focus", 3) => selectionValues = <<550, 500, 450>>
        /\ (strategy = "geographic-coverage" /\ Len(workingSet) > 0) =>
                \A k \in 1..Min(targetTotal, Cardinality(regionSet(workingSet))) :
                    /\ selection[k] \in bestOfRegion(workingSet, regionOrder(workingSet)[k])
                    /\ \A x \in bestOfRegion(workingSet, regionOrder(workingSet)[k]) :
                            selection[k] <= x

C14_Witness ==
    /\ results.computed
    /\ strategy = "geographic-coverage"
    /\ Len(workingSet) = 3
    /\ Cardinality(bestOfRegion(workingSet, fieldSalesRegio(workingSet[1]))) = 2
    /\ Len(selection) >= 2

\* every record of the histogrammed list has the same performance value
AllEqual == \A a, b \in Range(stores) : prodSelect(a) = prodSelect(b)

\* bin k (1-based) holds every record and every other bin is empty
AllInBin(k) ==
    \A j \in 1..Len(histogram.bins) :
        histogram.bins[j].count = IF j = k THEN Len(stores) ELSE 0

\* C15: the histogram of one record, or of records that all share one value,
\* has the requested number of bins, and exactly one bin holds all the records
\* (count 1 for a single record) while every other bin is empty.
C15_DegenerateOneBin ==
    (histogram.computed /\ Len(stores) >= 1 /\ AllEqual) =>
        /\ Len(histogram.bins) = histogram.requested
        /\ \E k \in 1..Len(histogram.bins) :
                /\ AllInBin(k)
                /\ Range(histogram.bins[k].stores) = Range(stores)

C15_Witness ==
    /\ histogram.computed
    /\ histogram.requested = 8
    /\ Len(stores) = 1
    /\ prodSelect(stores[1]) = 100
    /\ \E k \in 1..8 : histogram.bins[k].count = 1

\* C16: when min = max and at least two bins are asked for, all records fall
\* into the first bin.
C16_DegenerateFirstBin ==
    (histogram.computed /\ Len(stores) >= 1 /\ AllEqual /\ histogram.requested >= 2) =>
        AllInBin(1)

\* C17: Revenue Focus run again on its own selection S with target |S| returns
\* exactly S, in the same order.
C17_RevenueIdempotent ==
    (results.computed /\ strategy = "revenue-focus") =>
        selectStoresCall(selection, "revenue-focus", Len(selection),
                         Undefined).result.selectedStores = selection

C17_Witness ==
    /\ results.computed
    /\ strategy = "revenue-focus"
    /\ Len(selection) = 3
    /\ prodSelect(selection[1]) = prodSelect(selection[2])
    /\ prodSelect(selection[2]) > prodSelect(selection[3])

\* C18: for a non-empty working set, regionCoverage is the number of distinct
\* regions selected over the number of distinct regions of the working set
\* (filteredStores when given, not allStores), a number between 0 and 1.
C18_RegionCoverage ==
    (results.computed /\ Len(workingSet) > 0) =>
        /\ results.value.regionCoverage.kind = "number"
        /\ results.value.regionCoverage.num * Cardinality(regionSet(workingSet)) =
                results.value.regionCoverage.den * Cardinality(regionSet(selection))
        /\ 0 <= results.value.regionCoverage.num
        /\ results.value.regionCoverage.num <= results.value.regionCoverage.den

C18_Witness ==
    /\ results.computed
    /\ filteredStores.given
    /\ Cardinality(regionSet(stores)) = 2
    /\ Cardinality(regionSet(selection)) = 1
    /\ results.value.regionCoverage = [kind |-> "number", num |-> 1, den |-> 1]

\* the value at 0-based index k of the selected values sorted descending
valueAtRank(k) ==
    CHOOSE v \in Range(selectionValues) :
        /\ Cardinality({i \in 1..Len(selection) : prodSelect(selection[i]) > v}) <= k
        /\ Cardinality({i \in 1..Len(selection) : prodSelect(selection[i]) >= v}) > k

countWhere(Test(_)) == Cardinality({i \in 1..Len(selection) : Test(prodSelect(selection[i]))})

\* C19: for a non-empty selection of n records, with highThreshold the value at
\* index floor(0.33 n) and mediumThreshold the value at index floor(0.66 n) of the
\* values sorted descending: high counts the values >= highThreshold, medium
\* those in [mediumThreshold, highThreshold), low the rest; the three add up to
\* n and high >= 1.
C19_TierPartition ==
    (results.computed /\ Len(selection) > 0) =>
        LET highThreshold == valueAtRank((33 * Len(selection)) \div 100)
            mediumThreshold == valueAtRank((66 * Len(selection)) \div 100)
            tiers == results.value.performanceDistribution
        IN  /\ tiers.high = countWhere(LAMBDA v : v >= highThreshold)
            /\ tiers.medium = countWhere(LAMBDA v : v >= mediumThreshold /\ v < highThreshold)
            /\ tiers.low = countWhere(LAMBDA v : v < mediumThreshold)
            /\ tiers.high + tiers.medium + tiers.low = Len(selection)
            /\ tiers.high >= 1

C19_Witness ==
    /\ results.computed
    /\ Len(selection) = 3
    /\ results.value.performanceDistribution = [high |-> 1, medium |-> 1, low |-> 1]

\* the sum of the performance values of the selected records of the regions in R
RECURSIVE revenueUpTo(_, _)
revenueUpTo(i, R) ==
    IF i = 0 THEN 0
    ELSE revenueUpTo(i - 1, R) +
         (IF fieldSalesRegio(selection[i]) \in R THEN prodSelect(selection[i]) ELSE 0)

selectedRevenue(R) == revenueUpTo(Len(selection), R)

RECURSIVE sumOfValues(_, _)
sumOfValues(f, keys) ==
    IF keys = {} THEN 0
    ELSE LET k == CHOOSE x \in keys : TRUE
         IN  f[k] + sumOfValues(f, keys \ {k})

\* C20: totalRevenue is the sum over the selection, totalStores its length, the
\* keys of revenuePerRegion are exactly the regions selected (as many as
\* uniqueRegions), each value the sum over the selected records of that region,
\* and the values add up to totalRevenue.
C20_AnalyticsConsistency ==
    results.computed =>
        LET stats == results.value.statistics
        IN  /\ results.value.totalRevenue = selectedRevenue(regionSet(selection))
            /\ stats.totalStores = Len(selection)
            /\ DOMAIN stats.revenuePerRegion = regionSet(selection)
            /\ Cardinality(DOMAIN stats.revenuePerRegion) = stats.uniqueRegions
            /\ \A r \in DOMAIN stats.revenuePerRegion :
                    stats.revenuePerRegion[r] = selectedRevenue({r})
            /\ sumOfValues(stats.revenuePerRegion, DOMAIN stats.revenuePerRegion) =
                    results.value.totalRevenue

C20_Witness ==
    /\ results.computed
    /\ Len(selection) = 2
    /\ Len(workingSet) = 3
    /\ Cardinality(regionSet(workingSet)) = 2
    /\ results.value.statistics.uniqueRegions = 1

\* C21: uniqueRetailers is the number of distinct brands extractRetailerBrand
\* gives for the names of the selected records.
C21_UniqueRetailers ==
    results.computed =>
        results.value.statistics.uniqueRetailers =
            Cardinality({extractRetailerBrand(storeData[s].naam) : s \in Range(selection)})

\* C22: Geographic Coverage selects exactly min(targetCount, |candidates|)
\* records, also when one region holds far more records than the others.
C22_GeographicFills ==
    (results.computed /\ strategy = "geographic-coverage") =>
        Len(selection) = Min(targetTotal, Len(workingSet))

\* the state in which the round-robin loop of the last call ended
lastRoundRobin == geographicLoopOver(workingSet, targetTotal, regionsOf(workingSet))

GeographicCall ==
    /\ results.computed
    /\ strategy = "geographic-coverage"
    /\ Len(workingSet) > 0

\* C23 as claimed: the round-robin loop ends after at most 10 x regionCount
\* iterations.
C23_Claimed ==
    GeographicCall =>
        /\ ~lastRoundRobin.running
        /\ roundRobinIterations(workingSet, targetTotal) <=
                10 * Cardinality(regionSet(workingSet))

\* C23 amended: the round-robin loop ends for every input, also for a target
\* larger than the number of candidates, after at most 10 x regionCount + 1
\* iterations.
C23_LoopBound ==
    GeographicCall =>
        /\ ~lastRoundRobin.running
        /\ roundRobinIterations(workingSet, targetTotal) <=
                10 * Cardinality(regionSet(workingSet)) + 1

C23_Witness ==
    /\ GeographicCall
    /\ targetTotal > Len(workingSet)
    /\ Cardinality(regionSet(workingSet)) = 2
    /\ roundRobinIterations(workingSet, targetTotal) = 21

\* the 0-based index of record s in the working set sorted ascending by
\* performance value, equal records in import order
sortedIndex(s) ==
    Cardinality({x \in Range(workingSet) :
        \/ prodSelect(x) < prodSelect(s)
        \/ (prodSelect(x) = prodSelect(s) /\ x < s)})

bottomEnd == (2 * Len(workingSet)) \div 10

middleEnd == (7 * Len(workingSet)) \div 10

claimedCore == geographicDistributionSelection(workingSet, coreCount(targetTotal)).selected

claimedGrowth ==
    growthPotentialSelection(SelectSeq(workingSet, LAMBDA s : s \notin Range(claimedCore)),
                             growthCount(targetTotal)).selected

lastPart ==
    SubSeq(selection, Len(claimedCore) + Len(claimedGrowth) + 1, Len(selection))

PortfolioCall ==
    /\ results.computed
    /\ strategy = "portfolio-balance"
    /\ Len(workingSet) > 0

\* C25: a Portfolio Balance selection is (1) what Geographic Coverage returns
\* over all candidates with target core, then (2) what Growth Opportunities
\* returns over the candidates not in (1) with target growth, then (3) at most
\* experimental records selected in neither; the parts are pairwise disjoint
\* and the whole has at most targetCount records.
C25_PortfolioPhases ==
    PortfolioCall =>
        /\ Len(selection) >= Len(claimedCore) + Len(claimedGrowth)
        /\ SubSeq(selection, 1, Len(claimedCore) + Len(claimedGrowth)) =
                claimedCore \o claimedGrowth
        /\ Len(lastPart) <= experimentalCount(targetTotal)
        /\ Range(lastPart) \subseteq
                Range(workingSet) \ (Range(claimedCore) \cup Range(claimedGrowth))
        /\ Range(claimedCore) \cap Range(claimedGrowth) = {}
        /\ NoDuplicates(lastPart)
        /\ Len(selection) <= targetTotal

C25_Witness ==
    /\ PortfolioCall
    /\ targetTotal = 10
    /\ Len(claimedCore) = 7
    /\ Len(claimedGrowth) = 2
    /\ Len(lastPart) = 1

\* the records of the working set in region r, their number and their revenue
regionRecords(r) == {s \in Range(workingSet) : fieldSalesRegio(s) = r}

regionSize(r) == Cardinality(regionRecords(r))

RECURSIVE workingRevenueUpTo(_, _)
workingRevenueUpTo(i, r) ==
    IF i = 0 THEN 0
    ELSE workingRevenueUpTo(i - 1, r) +
         (IF fieldSalesRegio(workingSet[i]) = r THEN prodSelect(workingSet[i]) ELSE 0)

regionRevenue(r) == workingRevenueUpTo(Len(workingSet), r)

\* region r is not behind region q in the visiting order the claim gives:
\* more stores, or as many stores and no smaller average
notBehind(r, q) ==
    \/ regionSize(r) > regionSize(q)
    \/ /\ regionSize(r) = regionSize(q)
       /\ regionRevenue(r) * regionSize(q) >= regionRevenue(q) * regionSize(r)

\* the positions of the selection holding records of region r
blockOf(r) == {i \in 1..Len(selection) : fieldSalesRegio(selection[i]) = r}

firstOf(r) == CHOOSE i \in blockOf(r) : \A j \in blockOf(r) : i <= j

\* min(|r|, max(1, min(remainingSlots, ceil(targetCount x |r| / |candidates|))))
claimedShare(r, remainingSlots) ==
    Min(regionSize(r),
        Max(1, Min(remainingSlots,
                   (targetTotal * regionSize(r) + Len(workingSet) - 1)
                        \div Len(workingSet))))

MarketCall ==
    /\ results.computed
    /\ strategy = "market-penetration"
    /\ Len(workingSet) > 0

C30_MarketFills ==
    MarketCall => Len(selection) = Min(targetTotal, Len(workingSet))

C30_Witness ==
    /\ MarketCall
    /\ regionSize("North") = 2
    /\ regionSize("South") = 3
    /\ targetTotal = 3
    /\ Len(selection) = 3

\* the segment of a record: the pair (customerGroup, channel)
segmentOf(s) == <<storeData[s].klantgroep, storeData[s].kanaal>>

segmentSet(list) == {segmentOf(s) : s \in Range(list)}

segmentRecords(g) == {s \in Range(workingSet) : segmentOf(s) = g}

segmentSelected(g) == {s \in Range(selection) : segmentOf(s) = g}

RECURSIVE segmentRevenueUpTo(_, _)
segmentRevenueUpTo(i, g) ==
    IF i = 0 THEN 0
    ELSE segmentRevenueUpTo(i - 1, g) +
         (IF segmentOf(workingSet[i]) = g THEN prodSelect(workingSet[i]) ELSE 0)

segmentRevenue(g) == segmentRevenueUpTo(Len(workingSet), g)

\* the average of segment g is strictly higher than that of segment h
higherAverage(g, h) ==
    segmentRevenue(g) * Cardinality(segmentRecords(h)) >
        segmentRevenue(h) * Cardinality(segmentRecords(g))

\* max(1, ceil(0.3 g))
segmentQuota(g) == Max(1, (3 * Cardinality(segmentRecords(g)) + 9) \div 10)

DemographicCall ==
    /\ results.computed
    /\ strategy = "demographic-targeting"
    /\ Len(workingSet) > 0

\* C27: Demographic Targeting visits the segments by average performance
\* descending; it selects at most max(1, ceil(0.3 g)) records of a segment of
\* size g, the segment's top performers; a segment contributes only if every
\* segment with a strictly higher average contributed its full quota.
C27_SegmentQuota ==
    DemographicCall =>
        /\ \A i, j \in 1..Len(selection) : i < j =>
                ~higherAverage(segmentOf(selection[j]), segmentOf(selection[i]))
        /\ \A g \in segmentSet(workingSet) :
                /\ Cardinality(segmentSelected(g)) <= segmentQuota(g)
                /\ \A s \in segmentSelected(g) :
                        \A x \in segmentRecords(g) \ Range(selection) :
                            prodSelect(s) >= prodSelect(x)
                /\ segmentSelected(g) # {} =>
                        \A h \in segmentSet(workingSet) :
                            higherAverage(h, g) =>
                                Cardinality(segmentSelected(h)) = segmentQuota(h)

C27_Witness ==
    /\ DemographicCall
    /\ Len(workingSet) = 8
    /\ targetTotal = 3
    /\ Len(selection) = 3
    /\ Cardinality(segmentSet(selection)) = 2

\* The caller has imported records with hyphenated customer groups and channels
\* and asks for Demographic Targeting.
InitSegments ==
    /\ storeData \in SegmentImports
    /\ stores = [i \in 1..Len(storeData) |-> i]
    /\ filteredStores = Undefined
    /\ strategy = "demographic-targeting"
    /\ targetConfig \in [total : 1..(Len(storeData) + 1)]
    /\ results = Null
    /\ calls = 0
    /\ allocation = NoAllocation
    /\ histogram = NoHistogram

SpecSegments == InitSegments /\ [][Next]_vars

\* a and b are stores of one group of storesByDemographic
sameSegment(groups, a, b) ==
    \E i \in 1..Len(groups) : a \in Range(groups[i]) /\ b \in Range(groups[i])

\* C28: Demographic Targeting places two records in the same segment if and
\* only if they have equal customerGroup and equal channel, whatever the
\* strings are (values containing '-' included).
C28_PairGrouping ==
    DemographicCall =>
        \A a, b \in Range(workingSet) :
            sameSegment(storesByDemographic(workingSet), a, b)
                <=> segmentOf(a) = segmentOf(b)

RECURSIVE countsUpTo(_)
countsUpTo(i) == IF i = 0 THEN 0 ELSE countsUpTo(i - 1) + histogram.bins[i].count

\* the bins (1-based) whose stores list holds record s
binsHolding(s) ==
    {i \in 1..Len(histogram.bins) : s \in Range(histogram.bins[i].stores)}

\* C29: over a non-empty list generateHistogram returns exactly binCount bins,
\* every record belongs to exactly one bin, the maximum-valued records to the
\* last one, each bin's count is the length of its stores list, and the counts
\* sum to the number of records.
C29_BinsPartition ==
    (histogram.computed /\ Len(stores) > 0) =>
        /\ Len(histogram.bins) = histogram.requested
        /\ \A s \in Range(stores) :
                /\ Cardinality(binsHolding(s)) = 1
                /\ prodSelect(s) = maxRevenue(stores) =>
                        binsHolding(s) = {histogram.requested}
        /\ \A i \in 1..Len(histogram.bins) :
                histogram.bins[i].count = Len(histogram.bins[i].stores)
        /\ countsUpTo(Len(histogram.bins)) = Len(stores)

====
